---- MODULE Spec2Model ----
(***************************************************************************)
(* Model of pkg/manifest/installer.go: ApplyAll / applyRecursive (one      *)
(* goroutine per component, gated by the process-wide dependencyWaitCh     *)
(* channels) and applyManifest (the per-component apply sequence).         *)
(***************************************************************************)
EXTENDS Integers, Sequences, FiniteSets, TLC

(* ------------------------------ bounds -------------------------------- *)
\* Number of children declared under the Base component (16 in the source).
NumChildren == 2
\* Number of successive ApplyAll calls made in one process.
MaxRuns == 2
\* Largest number of live labelled objects `kubectl get` finds for a disabled component.
MaxLive == 1
\* Longest object list given to the ordering and partition functions.
MaxObjs == 3
\* Number of times wait.Poll evaluates its condition before the timeout has elapsed.
MaxTicks == 2
\* Largest replica count of a Deployment.
MaxReplicas == 2

(* --------------------------- component names -------------------------- *)
\* Components are numbered: 0 is the Base component, 1..NumChildren are the children
\* in the order of their declaration, NumChildren+1 is a name the declaration omits.
IstioBaseComponentName == 0

Children == 1..NumChildren

UnlistedComponentName == NumChildren + 1

ComponentNames == {IstioBaseComponentName, UnlistedComponentName} \cup Children

NoComponent == 0 - 1

componentDependencies(c) ==
    IF c = IstioBaseComponentName THEN [i \in 1..NumChildren |-> i] ELSE <<>>

\* The components for which init() makes a channel: every declared child.
HasGate(c) ==
    \E p \in ComponentNames :
        \E i \in DOMAIN componentDependencies(p) : componentDependencies(p)[i] = c

\* The declared parent of a child (the declaration gives each child one parent).
ParentOf(c) ==
    CHOOSE p \in ComponentNames :
        \E i \in DOMAIN componentDependencies(p) : componentDependencies(p)[i] = c

(* ------------------------------ objects ------------------------------- *)
\* A parsed object of a manifest, before applyManifest labels it.
K8sObject(g, k, n) ==
    [Group |-> g, Kind |-> k, Name |-> n,
     component |-> NoComponent, managed |-> "", version |-> ""]

NsObj == K8sObject("", "Namespace", "ns")

CrdObj == K8sObject("apiextensions.k8s.io", "CustomResourceDefinition", "crd")

DeployObj == K8sObject("apps", "Deployment", "deploy")

SvcObj == K8sObject("", "Service", "svc")

\* One object of each further kind defaultObjectOrder names, a Deployment of the
\* "extensions" group, a Pod (a kind it does not name), and a second Namespace and CRD.
SaObj == K8sObject("", "ServiceAccount", "sa")

ClusterRoleObj == K8sObject("rbac.authorization.k8s.io", "ClusterRole", "role")

ClusterRoleBindingObj == K8sObject("rbac.authorization.k8s.io", "ClusterRoleBinding", "binding")

ConfigMapObj == K8sObject("", "ConfigMap", "cm")

SecretObj == K8sObject("", "Secret", "secret")

ExtDeployObj == K8sObject("extensions", "Deployment", "extdeploy")

HpaObj == K8sObject("autoscaling", "HorizontalPodAutoscaler", "hpa")

PodObj == K8sObject("", "Pod", "pod")

NsObj2 == K8sObject("", "Namespace", "ns2")

CrdObj2 == K8sObject("apiextensions.k8s.io", "CustomResourceDefinition", "crd2")

operatorReconcileStr == "Reconcile"

\* The version string of the run (version.String()).
VersionStr == "ver"

\* The three AddLabels calls of applyManifest on one object.
AddLabels(o, componentName) ==
    [o EXCEPT !.component = componentName,
              !.managed = operatorReconcileStr,
              !.version = VersionStr]

\* What `kubectl get --selector <componentLabel>` parses to when n objects are live.
LiveObjects(componentName, n) ==
    [i \in 1..n |-> AddLabels(K8sObject("apps", "Deployment", "live"), componentName)]

\* A manifest string: either one the parser rejects, or the objects it parses to.
ManifestStr(bad, objs) == [bad |-> bad, objs |-> objs]

ParseK8sObjectsFromYAMLManifest(m) ==
    [err |-> m.bad, objects |-> IF m.bad THEN <<>> ELSE m.objs]

(* ----------------------- ordering and partition ----------------------- *)
defaultObjectOrder(o) ==
    LET gk == <<o.Group, o.Kind>> IN
    CASE gk = <<"apiextensions.k8s.io", "CustomResourceDefinition">> -> 0 - 1000
      [] gk \in {<<"", "ServiceAccount">>, <<"rbac.authorization.k8s.io", "ClusterRole">>} -> 1
      [] gk = <<"rbac.authorization.k8s.io", "ClusterRoleBinding">> -> 2
      [] gk \in {<<"", "ConfigMap">>, <<"", "Secrets">>} -> 100
      [] gk \in {<<"extensions", "Deployment">>, <<"app", "Deployment">>} -> 1000
      [] gk = <<"autoscaling", "HorizontalPodAutoscaler">> -> 1001
      [] gk = <<"", "Service">> -> 10000
      [] OTHER -> 1000

\* Insert o into the sorted sequence s after every element whose score is not larger.
RECURSIVE InsertSorted(_, _)
InsertSorted(s, o) ==
    IF s = <<>> THEN <<o>>
    ELSE IF defaultObjectOrder(s[Len(s)]) <= defaultObjectOrder(o) THEN Append(s, o)
    ELSE Append(InsertSorted(SubSeq(s, 1, Len(s) - 1), o), s[Len(s)])

\* objects.Sort(defaultObjectOrder()): ascending score, equal scores keep their order.
RECURSIVE Sort(_)
Sort(objects) ==
    IF objects = <<>> THEN <<>>
    ELSE InsertSorted(Sort(SubSeq(objects, 1, Len(objects) - 1)), objects[Len(objects)])

cRDKindObjects(objects) == SelectSeq(objects, LAMBDA o : o.Kind = "CustomResourceDefinition")

nsKindObjects(objects) == SelectSeq(objects, LAMBDA o : o.Kind = "Namespace")

\* Mutant of objectsNotInLists: only the first list is filtered out.
objectsNotInFirstList(objs, l1, l2) ==
    SelectSeq(objs, LAMBDA o : ~\E i \in DOMAIN l1 : l1[i] = o)

\* Objects are compared by pointer in the source; the objects of one manifest are
\* pairwise distinct values here, so membership by value is the same test.
objectsNotInLists(objects, l1, l2) ==
    SelectSeq(objects, LAMBDA o : ~\E i \in DOMAIN (l1 \o l2) : (l1 \o l2)[i] = o)

(* ----------------------------- options ------------------------------- *)
\* InstallOptions: the two fields the apply path reads.
InstallOptions == [DryRun : BOOLEAN, Wait : BOOLEAN]

(* -------------------- the cluster's answers to one call --------------- *)
\* The first call of an applyManifest run that the cluster or the serializer fails
\* ("none": every call succeeds). A point the run never reaches fails nothing.
FailPoints ==
    {"none", "GetAll", "GetItems", "ParseDel", "Delete",
     "NsJSON", "NsApply", "NsWait", "CrdJSON", "CrdApply", "CrdWait",
     "RestJSON", "RestApply"}

\* waitForResources: nil at once in dry-run mode, else what the polling ends with.
waitForResources(opts, pollFails) == IF opts.DryRun THEN FALSE ELSE pollFails

\* waitForCRDs: nil at once in dry-run mode, else what the polling ends with.
waitForCRDs(dryRun, pollFails) == IF dryRun THEN FALSE ELSE pollFails

(* ---------------------------- applyManifest --------------------------- *)
\* The arguments of one kubectl invocation.
ExtraArgs(force, prune, allNs, selector) ==
    [force |-> force, prune |-> prune, allNamespaces |-> allNs, selector |-> selector]

\* The waiters take no kubectl arguments.
NoArgs == ExtraArgs(FALSE, FALSE, FALSE, NoComponent)

\* One invocation made by applyManifest: the operation, the step it belongs to, its
\* arguments, the objects it carries and whether it returned without error.
Call(op, step, args, objs, ok) ==
    [op |-> op, step |-> step, extraArgs |-> args, objs |-> objs, ok |-> ok]

buildComponentApplyOutput(stdout, stderr, objects, err) ==
    [Stdout |-> stdout, Stderr |-> stderr, Manifest |-> objects, Err |-> err]

\* The locals of applyManifest while it runs; ret is set once it has returned.
Frame(stdout, stderr, applied, calls, err, ret) ==
    [stdout |-> stdout, stderr |-> stderr, appliedObjects |-> applied,
     calls |-> calls, err |-> err, ret |-> ret]

\* return buildComponentApplyOutput(stdout, stderr, appliedObjects, err), appliedObjects
Return(f, calls, err) ==
    [f EXCEPT !.calls = calls, !.err = err, !.ret = TRUE]

\* Mutant of PruneDisabled: the Delete invocation carries no selector.
PruneDisabledUnscoped(f, componentName, opts, fail, live) ==
    LET extraArgsGet == ExtraArgs(FALSE, FALSE, TRUE, componentName)
        extraArgsDel == ExtraArgs(FALSE, FALSE, FALSE, NoComponent)
        delObjects == LiveObjects(componentName, live)
        cGet == Append(f.calls, Call("GetAll", "prune", extraArgsGet,
                                     IF fail = "GetAll" THEN <<>> ELSE delObjects,
                                     fail # "GetAll"))
        cDel == Append(cGet, Call("Delete", "prune", extraArgsDel, delObjects, fail # "Delete"))
        fDel == [f EXCEPT !.stdout = Append(f.stdout, "Delete"),
                          !.stderr = Append(f.stderr, "Delete")]
    IN  IF fail = "GetAll"
        THEN Return([f EXCEPT !.stdout = Append(f.stdout, "GetAll"),
                              !.stderr = Append(f.stderr, "GetAll")], cGet, "GetAll")
        ELSE IF fail = "GetItems" THEN Return(f, cGet, "GetItems")
        ELSE IF live = 0 THEN Return(f, cGet, "nil")
        ELSE IF fail = "ParseDel" THEN Return(f, cGet, "ParseDel")
        ELSE IF fail = "Delete" THEN Return(fDel, cDel, "Delete")
        ELSE Return([fDel EXCEPT !.appliedObjects = f.appliedObjects \o delObjects],
                    cDel, "nil")

\* Lines 275-307: the component's manifest has no object. The GetAll invocation carries
\* the objects its output lists, the Delete invocation the objects it is given.
PruneDisabled(f, componentName, opts, fail, live) ==
    LET extraArgsGet == ExtraArgs(FALSE, FALSE, TRUE, componentName)
        extraArgsDel == ExtraArgs(FALSE, FALSE, FALSE, componentName)
        delObjects == LiveObjects(componentName, live)
        cGet == Append(f.calls, Call("GetAll", "prune", extraArgsGet,
                                     IF fail = "GetAll" THEN <<>> ELSE delObjects,
                                     fail # "GetAll"))
        cDel == Append(cGet, Call("Delete", "prune", extraArgsDel, delObjects, fail # "Delete"))
        fDel == [f EXCEPT !.stdout = Append(f.stdout, "Delete"),
                          !.stderr = Append(f.stderr, "Delete")]
    IN  IF fail = "GetAll"
        THEN Return([f EXCEPT !.stdout = Append(f.stdout, "GetAll"),
                              !.stderr = Append(f.stderr, "GetAll")], cGet, "GetAll")
        ELSE IF fail = "GetItems" THEN Return(f, cGet, "GetItems")
        ELSE IF live = 0 THEN Return(f, cGet, "nil")
        ELSE IF fail = "ParseDel" THEN Return(f, cGet, "ParseDel")
        ELSE IF fail = "Delete" THEN Return(fDel, cDel, "Delete")
        ELSE Return([fDel EXCEPT !.appliedObjects = f.appliedObjects \o delObjects],
                    cDel, "nil")

\* Mutant of ApplyNamespaces: the error of the namespace Apply is not checked.
ApplyNamespacesIgnoringApplyError(f, nsObjects, extraArgs, opts, fail) ==
    LET cApply == Append(f.calls, Call("Apply", "ns", extraArgs, nsObjects, fail # "NsApply"))
        waitErr == waitForResources(opts, fail = "NsWait")
        cWait == Append(cApply, Call("waitForResources", "ns", NoArgs, nsObjects, ~waitErr))
        fOut == [f EXCEPT !.stdout = Append(f.stdout, "Ns"),
                          !.stderr = Append(f.stderr, "Ns")]
    IN  IF f.ret THEN f
        ELSE IF Len(nsObjects) = 0
             THEN [f EXCEPT !.appliedObjects = f.appliedObjects \o nsObjects]
        ELSE IF fail = "NsJSON" THEN Return(f, f.calls, "NsJSON")
        ELSE IF waitErr THEN Return(fOut, cWait, "NsWait")
        ELSE [fOut EXCEPT !.calls = cWait,
                          !.appliedObjects = f.appliedObjects \o nsObjects]

\* Lines 327-345: apply the namespace objects and wait for them.
ApplyNamespaces(f, nsObjects, extraArgs, opts, fail) ==
    LET cApply == Append(f.calls, Call("Apply", "ns", extraArgs, nsObjects, fail # "NsApply"))
        waitErr == waitForResources(opts, fail = "NsWait")
        cWait == Append(cApply, Call("waitForResources", "ns", NoArgs, nsObjects, ~waitErr))
        fOut == [f EXCEPT !.stdout = Append(f.stdout, "Ns"),
                          !.stderr = Append(f.stderr, "Ns")]
    IN  IF f.ret THEN f
        ELSE IF Len(nsObjects) = 0
             THEN [f EXCEPT !.appliedObjects = f.appliedObjects \o nsObjects]
        ELSE IF fail = "NsJSON" THEN Return(f, f.calls, "NsJSON")
        ELSE IF fail = "NsApply" THEN Return(fOut, cApply, "NsApply")
        ELSE IF waitErr THEN Return(fOut, cWait, "NsWait")
        ELSE [fOut EXCEPT !.calls = cWait,
                          !.appliedObjects = f.appliedObjects \o nsObjects]

\* Mutant of ApplyCRDs: the error of waitForCRDs is not checked.
ApplyCRDsIgnoringWaitError(f, crdObjects, extraArgs, opts, fail) ==
    LET cApply == Append(f.calls, Call("Apply", "crd", extraArgs, crdObjects, fail # "CrdApply"))
        waitErr == waitForCRDs(opts.DryRun, fail = "CrdWait")
        cWait == Append(cApply, Call("waitForCRDs", "crd", NoArgs, crdObjects, ~waitErr))
        fOut == [f EXCEPT !.stdout = Append(f.stdout, "CRD"),
                          !.stderr = Append(f.stderr, "CRD")]
    IN  IF f.ret THEN f
        ELSE IF Len(crdObjects) = 0
             THEN [f EXCEPT !.appliedObjects = f.appliedObjects \o crdObjects]
        ELSE IF fail = "CrdJSON" THEN Return(f, f.calls, "CrdJSON")
        ELSE IF fail = "CrdApply" THEN Return(fOut, cApply, "CrdApply")
        ELSE [fOut EXCEPT !.calls = cWait,
                          !.appliedObjects = f.appliedObjects \o crdObjects]

\* Lines 347-365: apply the CRD objects and wait until they are established.
ApplyCRDs(f, crdObjects, extraArgs, opts, fail) ==
    LET cApply == Append(f.calls, Call("Apply", "crd", extraArgs, crdObjects, fail # "CrdApply"))
        waitErr == waitForCRDs(opts.DryRun, fail = "CrdWait")
        cWait == Append(cApply, Call("waitForCRDs", "crd", NoArgs, crdObjects, ~waitErr))
        fOut == [f EXCEPT !.stdout = Append(f.stdout, "CRD"),
                          !.stderr = Append(f.stderr, "CRD")]
    IN  IF f.ret THEN f
        ELSE IF Len(crdObjects) = 0
             THEN [f EXCEPT !.appliedObjects = f.appliedObjects \o crdObjects]
        ELSE IF fail = "CrdJSON" THEN Return(f, f.calls, "CrdJSON")
        ELSE IF fail = "CrdApply" THEN Return(fOut, cApply, "CrdApply")
        ELSE IF waitErr THEN Return(fOut, cWait, "CrdWait")
        ELSE [fOut EXCEPT !.calls = cWait,
                          !.appliedObjects = f.appliedObjects \o crdObjects]

\* Lines 367-381: apply the objects that are neither namespaces nor CRDs.
ApplyRemainder(f, nonNsCrdObjects, extraArgs, opts, fail) ==
    LET cApply == Append(f.calls,
                         Call("Apply", "rest", extraArgs, nonNsCrdObjects, fail # "RestApply"))
        fOut == [f EXCEPT !.stdout = Append(f.stdout, "NonNsCrd"),
                          !.stderr = Append(f.stderr, "NonNsCrd"),
                          !.appliedObjects = f.appliedObjects \o nonNsCrdObjects]
    IN  IF f.ret THEN f
        ELSE IF fail = "RestJSON" THEN Return(f, f.calls, "RestJSON")
        ELSE Return(fOut, cApply, IF fail = "RestApply" THEN "RestApply" ELSE "nil")

\* Mutant of ApplyEnabled: the Base component's Apply invocations ask for pruning too.
ApplyEnabledAlwaysPruning(f, componentName, parsed, opts, fail) ==
    LET objects == Sort([i \in DOMAIN parsed |-> AddLabels(parsed[i], componentName)])
        extraArgs == IF TRUE
                     THEN ExtraArgs(TRUE, TRUE, FALSE, componentName)
                     ELSE ExtraArgs(TRUE, FALSE, FALSE, NoComponent)
        nsObjects == nsKindObjects(objects)
        crdObjects == cRDKindObjects(objects)
        nonNsCrdObjects == objectsNotInLists(objects, nsObjects, crdObjects)
        f1 == ApplyNamespaces(f, nsObjects, extraArgs, opts, fail)
        f2 == ApplyCRDs(f1, crdObjects, extraArgs, opts, fail)
    IN  ApplyRemainder(f2, nonNsCrdObjects, extraArgs, opts, fail)

\* Lines 309-325: label and sort the objects, choose the arguments, then the three steps.
ApplyEnabled(f, componentName, parsed, opts, fail) ==
    LET objects == Sort([i \in DOMAIN parsed |-> AddLabels(parsed[i], componentName)])
        extraArgs == IF componentName # IstioBaseComponentName
                     THEN ExtraArgs(TRUE, TRUE, FALSE, componentName)
                     ELSE ExtraArgs(TRUE, FALSE, FALSE, NoComponent)
        nsObjects == nsKindObjects(objects)
        crdObjects == cRDKindObjects(objects)
        nonNsCrdObjects == objectsNotInLists(objects, nsObjects, crdObjects)
        f1 == ApplyNamespaces(f, nsObjects, extraArgs, opts, fail)
        f2 == ApplyCRDs(f1, crdObjects, extraArgs, opts, fail)
    IN  ApplyRemainder(f2, nonNsCrdObjects, extraArgs, opts, fail)

\* applyManifest(componentName, manifestStr, version, opts), given what the cluster
\* answers: the first failing call and the number of live objects of the component.
applyManifest(componentName, manifestStr, opts, fail, live) ==
    LET f0 == Frame(<<>>, <<>>, <<>>, <<>>, "nil", FALSE)
        p == ParseK8sObjectsFromYAMLManifest(manifestStr)
        f == IF p.err THEN Return(f0, <<>>, "Parse")
             ELSE IF Len(p.objects) = 0
                  THEN PruneDisabled(f0, componentName, opts, fail, live)
             ELSE ApplyEnabled(f0, componentName, p.objects, opts, fail)
    IN  [applyOut |-> buildComponentApplyOutput(f.stdout, f.stderr, f.appliedObjects, f.err),
         appliedObjects |-> f.appliedObjects,
         calls |-> f.calls]

(* ------------------------------- state -------------------------------- *)
VARIABLES
    run,                \* number of ApplyAll calls made so far in this process
    phase,              \* "idle", "running" (tasks launched), "returned"
    manifests,          \* the ManifestMap of the current call
    opts,               \* the InstallOptions of the current call
    k8sRESTConfig,      \* TRUE once the process-wide REST config is set
    dependencyWaitCh,   \* per declared child: signals buffered in its channel (capacity 1)
    pc,                 \* per component: where its goroutine is
    next,               \* per component: index of the next child it signals
    out,                \* CompositeOutput of the current call
    allAppliedObjects,  \* the aggregated applied objects of the current call
    calls,              \* per component: the invocations its applyManifest made
    sent,               \* per gate: signals its parent sent during the current call
    received,           \* per gate: signals its child consumed during the current call
    retErr,             \* the error ApplyAll returned ("nil" for none)
    finalWait,          \* the final waitForResources call: whether made, and on what
    objects,            \* the object list of applyManifest between parsing and applying
    sorted,             \* TRUE once objects.Sort(defaultObjectOrder()) has run on it
    parts,              \* the three lists applyManifest splits objects into
    waiter,             \* the waiter that is running: "none", "crd" or "res"
    wObjects,           \* the objects the waiter was given
    wDryRun,            \* the dry-run flag the waiter was given
    wpc,                \* "idle", "polling" (inside wait.Poll) or "returned"
    tick,               \* number of evaluations of the poll condition so far
    wLive,              \* what the cluster answered for each object at the last tick
    cond,               \* what the poll condition returned at the last tick
    notReady,           \* the notReady variable of waitForResources (line 553)
    wErr,               \* the error the waiter returned ("nil" for none)
    rpc,                \* RenderToDir: "idle", "rendering" or "returned"
    rManifests,         \* the ManifestMap given to RenderToDir
    rDryRun,            \* the dryRun flag given to RenderToDir
    visited,            \* the components whose loop iteration renderRecursive has made
    dirs,               \* the directories created under outputDir
    files,              \* the files written under outputDir
    rErr                \* the error RenderToDir returned ("nil" for none)

\* The variables of ApplyAll and its goroutines.
installVars ==
    <<run, phase, manifests, opts, k8sRESTConfig, dependencyWaitCh, pc, next, out,
      allAppliedObjects, calls, sent, received, retErr, finalWait>>

\* The variables of the ordering and partition of one object list.
orderVars == <<objects, sorted, parts>>

\* The variables of one call of waitForCRDs or waitForResources.
waitVars == <<waiter, wObjects, wDryRun, wpc, tick, wLive, cond, notReady, wErr>>

\* The variables of one call of RenderToDir and the file system under outputDir.
renderVars == <<rpc, rManifests, rDryRun, visited, dirs, files, rErr>>

\* The variables ApplyAll and its goroutines leave alone.
otherVars == <<orderVars, waitVars, renderVars>>

\* The variables the ordering of a list leaves alone.
exceptOrder == <<installVars, waitVars, renderVars>>

\* The variables a waiter leaves alone.
exceptWait == <<installVars, orderVars, renderVars>>

\* The variables RenderToDir leaves alone.
exceptRender == <<installVars, orderVars, waitVars>>

vars == <<installVars, otherVars>>

\* The manifest strings a call may carry for a component: one the parser rejects, an
\* empty one (a disabled component), and two enabled ones.
ManifestStrs ==
    {ManifestStr(TRUE, <<>>),
     ManifestStr(FALSE, <<>>),
     ManifestStr(FALSE, <<DeployObj>>),
     ManifestStr(FALSE, <<SvcObj, DeployObj, NsObj, CrdObj>>)}

\* Every ManifestMap that gives the components of C a manifest string of M.
ManifestMaps(C, M) == UNION {[S -> M] : S \in SUBSET C}

\* The inputs of the orchestration runs: any subset of the Base component and its
\* children, each with a manifest the parser rejects or a one-object manifest, every
\* cluster call succeeding.
RunManifestStrs == {ManifestStr(TRUE, <<>>), ManifestStr(FALSE, <<DeployObj>>)}

RunMaps == ManifestMaps({IstioBaseComponentName} \cup Children, RunManifestStrs)

RunFailPoints == {"none"}

\* The inputs of the apply runs: the Base component and its first child, or the
\* unlisted component alone, with every manifest string and every failure point.
ApplyMaps ==
    ManifestMaps({IstioBaseComponentName, 1}, ManifestStrs)
        \cup ManifestMaps({UnlistedComponentName}, ManifestStrs)

NotCalled == [called |-> FALSE, objects |-> <<>>]

\* The state after init() (lines 126-134): one empty channel per declared child.
InitInstall ==
    /\ run = 0
    /\ phase = "idle"
    /\ manifests = <<>>
    /\ opts = [DryRun |-> FALSE, Wait |-> FALSE]
    /\ k8sRESTConfig = FALSE
    /\ dependencyWaitCh = [c \in {x \in ComponentNames : HasGate(x)} |-> 0]
    /\ pc = [c \in ComponentNames |-> "absent"]
    /\ next = [c \in ComponentNames |-> 1]
    /\ out = <<>>
    /\ allAppliedObjects = <<>>
    /\ calls = [c \in ComponentNames |-> <<>>]
    /\ sent = [c \in DOMAIN dependencyWaitCh |-> 0]
    /\ received = [c \in DOMAIN dependencyWaitCh |-> 0]
    /\ retErr = "nil"
    /\ finalWait = NotCalled

\* No object list is being ordered.
NoParts == [set |-> FALSE, ns |-> <<>>, crd |-> <<>>, rest |-> <<>>]

InitNoOrder ==
    /\ objects = <<>>
    /\ sorted = FALSE
    /\ parts = NoParts

\* What the poll condition returns: done, err (an API error), the place of the last
\* object it looked at, and whether it got to evaluate readiness.
CondResult(done, err, fetched, evaluated) ==
    [done |-> done, err |-> err, fetched |-> fetched, evaluated |-> evaluated]

\* No waiter is running.
InitNoWait ==
    /\ waiter = "none"
    /\ wObjects = <<>>
    /\ wDryRun = FALSE
    /\ wpc = "idle"
    /\ tick = 0
    /\ wLive = <<>>
    /\ cond = CondResult(FALSE, FALSE, 0, FALSE)
    /\ notReady = <<>>
    /\ wErr = "nil"

\* RenderToDir has not been called and outputDir is empty.
InitNoRender ==
    /\ rpc = "idle"
    /\ rManifests = <<>>
    /\ rDryRun = FALSE
    /\ visited = {}
    /\ dirs = {}
    /\ files = {}
    /\ rErr = "nil"

Init == InitInstall /\ InitNoOrder /\ InitNoWait /\ InitNoRender

\* The locals of a call before its first statement.
FreshCall ==
    /\ next' = [c \in ComponentNames |-> 1]
    /\ out' = <<>>
    /\ allAppliedObjects' = <<>>
    /\ calls' = [c \in ComponentNames |-> <<>>]
    /\ sent' = [c \in DOMAIN dependencyWaitCh |-> 0]
    /\ received' = [c \in DOMAIN dependencyWaitCh |-> 0]
    /\ finalWait' = NotCalled

\* ApplyAll, lines 214-222, when initK8SRestClient fails: return nil, err.
ApplyAllNoConnection(m, o) ==
    /\ phase = "idle"
    /\ run < MaxRuns
    /\ ~k8sRESTConfig
    /\ run' = run + 1
    /\ manifests' = m
    /\ opts' = o
    /\ phase' = "returned"
    /\ retErr' = "connection"
    /\ UNCHANGED <<k8sRESTConfig, dependencyWaitCh, pc, next, out, allAppliedObjects,
                   calls, sent, received, finalWait>>
    /\ UNCHANGED otherVars

\* ApplyAll, lines 214-223, and the loop of applyRecursive, lines 227-254: the REST
\* config is set (now or by an earlier call) and one goroutine per component starts.
ApplyAll(m, o) ==
    /\ phase = "idle"
    /\ run < MaxRuns
    /\ run' = run + 1
    /\ manifests' = m
    /\ opts' = o
    /\ k8sRESTConfig' = TRUE
    /\ phase' = "running"
    /\ pc' = [c \in ComponentNames |-> IF c \in DOMAIN m THEN "wait" ELSE "absent"]
    /\ UNCHANGED <<dependencyWaitCh, next, out, allAppliedObjects, calls, sent, received,
                   retErr, finalWait>>
    /\ UNCHANGED otherVars

\* Lines 236-241: the goroutine of c receives from its channel, if it has one, and
\* calls applyManifest.
PassGate(c) ==
    /\ phase = "running"
    /\ pc[c] = "wait"
    /\ IF HasGate(c)
       THEN /\ dependencyWaitCh[c] > 0
            /\ dependencyWaitCh' = [dependencyWaitCh EXCEPT ![c] = @ - 1]
            /\ received' = [received EXCEPT ![c] = @ + 1]
       ELSE UNCHANGED <<dependencyWaitCh, received>>
    /\ pc' = [pc EXCEPT ![c] = "apply"]
    /\ UNCHANGED <<run, phase, manifests, opts, k8sRESTConfig, next, out,
                   allAppliedObjects, calls, sent, retErr, finalWait>>
    /\ UNCHANGED otherVars

\* out[c] = applyOut
PutOutput(o, c, applyOut) ==
    [x \in DOMAIN o \cup {c} |-> IF x = c THEN applyOut ELSE o[x]]

\* Mutant of AppendApplied: the goroutine stores its own list over the aggregate.
AppendAppliedOverwriting(all, appliedObjects) == appliedObjects

\* allAppliedObjects = append(allAppliedObjects, appliedObjects...)
AppendApplied(all, appliedObjects) == all \o appliedObjects

\* Lines 241-245: applyManifest returns and, under the mutex, the goroutine stores the
\* outcome and appends the applied objects. F: the failure points the cluster may take.
ApplyAndRecord(c, F) ==
    /\ phase = "running"
    /\ pc[c] = "apply"
    /\ \E fail \in F, live \in 0..MaxLive :
         LET r == applyManifest(c, manifests[c], opts, fail, live) IN
           /\ out' = PutOutput(out, c, r.applyOut)
           /\ allAppliedObjects' = AppendApplied(allAppliedObjects, r.appliedObjects)
           /\ calls' = [calls EXCEPT ![c] = r.calls]
    /\ pc' = [pc EXCEPT ![c] = IF Len(componentDependencies(c)) = 0 THEN "done" ELSE "signal"]
    /\ UNCHANGED <<run, phase, manifests, opts, k8sRESTConfig, dependencyWaitCh, next,
                   sent, received, retErr, finalWait>>
    /\ UNCHANGED otherVars

\* Lines 248-252: one send of the loop over the children of c; wg.Done() after the last.
SignalChild(c) ==
    /\ phase = "running"
    /\ pc[c] = "signal"
    /\ LET ch == componentDependencies(c)[next[c]] IN
         /\ dependencyWaitCh[ch] < 1
         /\ dependencyWaitCh' = [dependencyWaitCh EXCEPT ![ch] = @ + 1]
         /\ sent' = [sent EXCEPT ![ch] = @ + 1]
    /\ next' = [next EXCEPT ![c] = @ + 1]
    /\ pc' = [pc EXCEPT ![c] = IF next[c] = Len(componentDependencies(c))
                                 THEN "done" ELSE "signal"]
    /\ UNCHANGED <<run, phase, manifests, opts, k8sRESTConfig, out, allAppliedObjects,
                   calls, received, retErr, finalWait>>
    /\ UNCHANGED otherVars

\* Mutant of WaitAndReturn: the first error among the outcomes is returned as the
\* error of the call.
WaitAndReturnPropagatingOutcomeError ==
    /\ phase = "running"
    /\ \A c \in DOMAIN manifests : pc[c] = "done"
    /\ phase' = "returned"
    /\ IF \E c \in DOMAIN out : out[c].Err # "nil"
       THEN /\ finalWait' = NotCalled
            /\ retErr' = "component"
       ELSE IF opts.Wait
       THEN /\ finalWait' = [called |-> TRUE, objects |-> allAppliedObjects]
            /\ \E pollFails \in BOOLEAN :
                 retErr' = IF waitForResources(opts, pollFails) THEN "notReady" ELSE "nil"
       ELSE /\ finalWait' = NotCalled
            /\ retErr' = "nil"
    /\ UNCHANGED <<run, manifests, opts, k8sRESTConfig, dependencyWaitCh, pc, next, out,
                   allAppliedObjects, calls, sent, received>>
    /\ UNCHANGED otherVars

\* Mutant of WaitAndReturn: the call does not wait for the goroutines (no wg.Wait()).
WaitAndReturnWithoutJoin ==
    /\ phase = "running"
    /\ phase' = "returned"
    /\ IF opts.Wait
       THEN /\ finalWait' = [called |-> TRUE, objects |-> allAppliedObjects]
            /\ \E pollFails \in BOOLEAN :
                 retErr' = IF waitForResources(opts, pollFails) THEN "notReady" ELSE "nil"
       ELSE /\ finalWait' = NotCalled
            /\ retErr' = "nil"
    /\ UNCHANGED <<run, manifests, opts, k8sRESTConfig, dependencyWaitCh, pc, next, out,
                   allAppliedObjects, calls, sent, received>>
    /\ UNCHANGED otherVars

\* Lines 255-259: wg.Wait() returns once every goroutine is done; with opts.Wait the
\* final waitForResources runs over allAppliedObjects and its error is returned.
WaitAndReturn ==
    /\ phase = "running"
    /\ \A c \in DOMAIN manifests : pc[c] = "done"
    /\ phase' = "returned"
    /\ IF opts.Wait
       THEN /\ finalWait' = [called |-> TRUE, objects |-> allAppliedObjects]
            /\ \E pollFails \in BOOLEAN :
                 retErr' = IF waitForResources(opts, pollFails) THEN "notReady" ELSE "nil"
       ELSE /\ finalWait' = NotCalled
            /\ retErr' = "nil"
    /\ UNCHANGED <<run, manifests, opts, k8sRESTConfig, dependencyWaitCh, pc, next, out,
                   allAppliedObjects, calls, sent, received>>
    /\ UNCHANGED otherVars

\* The caller is done with what ApplyAll returned: the locals of the call are gone, the
\* package-level channels and REST config stay as the call left them.
Discard ==
    /\ phase = "returned"
    /\ phase' = "idle"
    /\ manifests' = <<>>
    /\ opts' = [DryRun |-> FALSE, Wait |-> FALSE]
    /\ pc' = [c \in ComponentNames |-> "absent"]
    /\ retErr' = "nil"
    /\ FreshCall
    /\ UNCHANGED <<run, k8sRESTConfig, dependencyWaitCh>>
    /\ UNCHANGED otherVars

\* A step of one of the goroutines of lines 235-253, failure points drawn from F.
TaskStep(F) ==
    \/ \E c \in ComponentNames : PassGate(c)
    \/ \E c \in ComponentNames : ApplyAndRecord(c, F)
    \/ \E c \in ComponentNames : SignalChild(c)

\* The steps of the caller and of the goroutines, maps drawn from Maps and failure
\* points from F.
Step(Maps, F) ==
    \/ \E m \in Maps, o \in InstallOptions : ApplyAllNoConnection(m, o)
    \/ \E m \in Maps, o \in InstallOptions : ApplyAll(m, o)
    \/ TaskStep(F)
    \/ WaitAndReturn
    \/ Discard

Next == Step(RunMaps, RunFailPoints)

Spec == Init /\ [][Next]_vars

NextApply == Step(ApplyMaps, FailPoints)

SpecApply == Init /\ [][NextApply]_vars

(* ----------------- ordering and partition of one list ----------------- *)
\* The objects a list is made of.
OrderObjects ==
    {NsObj, NsObj2, CrdObj, CrdObj2, DeployObj, ExtDeployObj, SvcObj, SaObj, ClusterRoleObj,
     ClusterRoleBindingObj, ConfigMapObj, SecretObj, HpaObj, PodObj}

\* One object of each kind, in an order that is not the apply order.
OneOfEachKind ==
    <<SvcObj, HpaObj, PodObj, DeployObj, SecretObj, NsObj, ConfigMapObj,
      ClusterRoleBindingObj, ClusterRoleObj, SaObj, CrdObj>>

\* The lists of at most MaxObjs pairwise distinct objects, and OneOfEachKind.
ObjectLists ==
    {l \in UNION {[1..n -> OrderObjects] : n \in 0..MaxObjs} :
        \A i, j \in DOMAIN l : i # j => l[i] # l[j]}
      \cup {OneOfEachKind}

\* applyManifest holds a parsed object list (line 266) that it has not sorted yet.
InitOrder ==
    /\ InitInstall
    /\ InitNoWait
    /\ InitNoRender
    /\ objects \in ObjectLists
    /\ sorted = FALSE
    /\ parts = NoParts

\* Line 319: objects.Sort(defaultObjectOrder()) sorts the list in place.
SortObjects ==
    /\ ~sorted
    /\ ~parts.set
    /\ objects' = Sort(objects)
    /\ sorted' = TRUE
    /\ UNCHANGED <<parts, exceptOrder>>

\* Lines 327, 347 and 367: the three lists applyManifest applies in turn.
PartitionObjects ==
    /\ ~parts.set
    /\ LET nsObjects == nsKindObjects(objects)
           crdObjects == cRDKindObjects(objects)
       IN  parts' = [set |-> TRUE, ns |-> nsObjects, crd |-> crdObjects,
                     rest |-> objectsNotInLists(objects, nsObjects, crdObjects)]
    /\ UNCHANGED <<objects, sorted, exceptOrder>>

NextOrder == SortObjects \/ PartitionObjects

SpecOrder == InitOrder /\ [][NextOrder]_vars

(* ------------------------------ the waiters --------------------------- *)
\* Further objects given to the waiters.
CrdObj3 == K8sObject("apiextensions.k8s.io", "CustomResourceDefinition", "crd3")

DeployObj2 == K8sObject("apps", "Deployment", "deploy2")

DaemonSetObj == K8sObject("apps", "DaemonSet", "ds")

\* The kinds waitForResources resolves to the pods of a selector (lines 576-629).
PodSelectingKinds == {"ReplicationController", "DaemonSet", "StatefulSet", "ReplicaSet"}

Condition(type, status) == [Type |-> type, Status |-> status]

\* What Get answers for a CRD: an error, or the status conditions of the CRD.
CrdLive ==
    {[err |-> "get", Conditions |-> <<>>]}
      \cup {[err |-> "nil", Conditions |-> cs] :
              cs \in {<<>>,
                      <<Condition("Established", "True")>>,
                      <<Condition("Established", "False")>>,
                      <<Condition("NamesAccepted", "False")>>,
                      <<Condition("NamesAccepted", "False"), Condition("Established", "True")>>,
                      <<Condition("NamesAccepted", "True"), Condition("Established", "False")>>}}

\* What Get answers for a Namespace: an error, or its phase.
NamespaceLive ==
    {[err |-> "get", Phase |-> ""]}
      \cup {[err |-> "nil", Phase |-> ph] : ph \in {"Active", "Terminating"}}

PodConditions ==
    {<<>>, <<Condition("Ready", "True")>>, <<Condition("Ready", "False")>>}

\* What Get answers for a Pod: an error, or its status conditions.
PodLive ==
    {[err |-> "get", Conditions |-> <<>>]}
      \cup {[err |-> "nil", Conditions |-> cs] : cs \in PodConditions}

Pod(n, conditions) == [Name |-> n, Conditions |-> conditions]

\* What Get and getPods answer for an object of a pod-selecting kind: an error of the
\* one or the other, or the pods of its selector.
SelectedPodsLive ==
    {[err |-> e, Pods |-> <<>>] : e \in {"get", "list"}}
      \cup {[err |-> "nil", Pods |-> ps] :
              ps \in {<<>>,
                      <<Pod("p1", <<Condition("Ready", "True")>>)>>,
                      <<Pod("p1", <<>>)>>,
                      <<Pod("p1", <<Condition("Ready", "True")>>),
                        Pod("p2", <<Condition("Ready", "False")>>)>>}}

\* What Get and GetAllReplicaSets answer for a Deployment: an error of the one or the
\* other, no current replica set yet, or the ready replicas of the current replica set
\* and the replicas the Deployment asks for.
DeploymentLive ==
    {[err |-> e, hasRS |-> FALSE, ReadyReplicas |-> 0, Replicas |-> 1] : e \in {"get", "rs"}}
      \cup {[err |-> "nil", hasRS |-> FALSE, ReadyReplicas |-> 0, Replicas |-> 1]}
      \cup {[err |-> "nil", hasRS |-> TRUE, ReadyReplicas |-> r, Replicas |-> d] :
              r \in 0..MaxReplicas, d \in 1..MaxReplicas}

ClusterIPNone == "None"

\* What Get answers for a Service: an error, or its type, its cluster IP and whether
\* its load balancer status has an ingress.
ServiceLive ==
    {[err |-> "get", Type |-> "ClusterIP", ClusterIP |-> "", Ingress |-> FALSE]}
      \cup {[err |-> "nil", Type |-> t, ClusterIP |-> ip, Ingress |-> ing] :
              t \in {"ClusterIP", "NodePort", "LoadBalancer", "ExternalName"},
              ip \in {"", ClusterIPNone, "10.0.0.1"},
              ing \in BOOLEAN}

\* An object of a kind waitForResources does not look at.
NotFetched == [err |-> "nil"]

\* The answers the cluster may give waitForResources for object o.
LiveOf(o) ==
    CASE o.Kind = "Namespace" -> NamespaceLive
      [] o.Kind = "Pod" -> PodLive
      [] o.Kind \in PodSelectingKinds -> SelectedPodsLive
      [] o.Kind = "Deployment" -> DeploymentLive
      [] o.Kind = "Service" -> ServiceLive
      [] OTHER -> {NotFetched}

\* The answers the cluster may give at one tick for the objects objs, one per object.
RECURSIVE LiveStates(_)
LiveStates(objs) ==
    IF objs = <<>> THEN {<<>>}
    ELSE {Append(l, x) : l \in LiveStates(SubSeq(objs, 1, Len(objs) - 1)),
                         x \in LiveOf(objs[Len(objs)])}

\* A name of the notReady list: "<Kind>/<namespace>/<name>".
ResourceName(kind, n) == <<kind, n>>

isNamespaceReady(namespace) == namespace.Phase = "Active"

isPodReady(pod) ==
    \E i \in DOMAIN pod.Conditions :
        pod.Conditions[i].Type = "Ready" /\ pod.Conditions[i].Status = "True"

\* The names appended to notReady for the items nr, in their order.
NamesOf(kind, nr) == [i \in DOMAIN nr |-> ResourceName(kind, nr[i].Name)]

ReadyResult(names) == [ready |-> Len(names) = 0, notReady |-> names]

namespacesReady(namespaces) ==
    ReadyResult(NamesOf("Namespace", SelectSeq(namespaces, LAMBDA x : ~isNamespaceReady(x))))

podsReady(pods) ==
    ReadyResult(NamesOf("Pod", SelectSeq(pods, LAMBDA x : ~isPodReady(x))))

\* Mutant of deploymentsReady: a Deployment whose ready replicas equal the replicas it
\* asks for is still not ready.
deploymentsReadyAboveOnly(deployments) ==
    ReadyResult(NamesOf("Deployment",
                        SelectSeq(deployments, LAMBDA v : v.ReadyReplicas <= v.Replicas)))

deploymentsReady(deployments) ==
    ReadyResult(NamesOf("Deployment",
                        SelectSeq(deployments, LAMBDA v : v.ReadyReplicas < v.Replicas)))

\* Mutant of servicesReady: only a service of type ClusterIP needs a cluster IP.
servicesReadyByType(svc) ==
    ReadyResult(NamesOf("Service", SelectSeq(svc,
        LAMBDA sv :
            /\ sv.Type # "ExternalName"
            /\ \/ sv.Type = "ClusterIP" /\ sv.ClusterIP = ""
               \/ sv.Type = "LoadBalancer" /\ ~sv.Ingress)))

servicesReady(svc) ==
    ReadyResult(NamesOf("Service", SelectSeq(svc,
        LAMBDA sv :
            /\ sv.Type # "ExternalName"
            /\ \/ sv.ClusterIP # ClusterIPNone /\ sv.ClusterIP = ""
               \/ sv.Type = "LoadBalancer" /\ ~sv.Ingress)))

joinStringSlices(s1, s2, s3, s4) == s1 \o s2 \o s3 \o s4

\* The live objects of the kinds K among objs, each with the name of its object, in
\* the order of objs.
FetchedOfKinds(objs, l, K) ==
    LET idx == SelectSeq([i \in DOMAIN objs |-> i], LAMBDA i : objs[i].Kind \in K)
    IN  [j \in DOMAIN idx |->
            [x \in DOMAIN l[idx[j]] \cup {"Name"} |->
                IF x = "Name" THEN objs[idx[j]].Name ELSE l[idx[j]][x]]]

\* The pods list of lines 570-629: the Pod objects and the pods of the selectors.
RECURSIVE FetchedPods(_, _)
FetchedPods(objs, l) ==
    IF objs = <<>> THEN <<>>
    ELSE LET n == Len(objs)
             before == FetchedPods(SubSeq(objs, 1, n - 1), SubSeq(l, 1, n - 1))
         IN  CASE objs[n].Kind = "Pod" -> Append(before, Pod(objs[n].Name, l[n].Conditions))
               [] objs[n].Kind \in PodSelectingKinds -> before \o l[n].Pods
               [] OTHER -> before

\* How the loop of lines 561-637 leaves object o: "err" (return false, err), "stop"
\* (return false, nil: a Deployment without a current replica set) or "ok".
FetchOutcome(o, x) ==
    CASE x.err # "nil" -> "err"
      [] o.Kind = "Deployment" /\ ~x.hasRS -> "stop"
      [] OTHER -> "ok"

\* The place of the first object of objs that the loop returns at, 0 if there is none.
FirstReturn(objs, l) ==
    LET R == {i \in DOMAIN objs : FetchOutcome(objs[i], l[i]) # "ok"}
    IN  IF R = {} THEN 0 ELSE CHOOSE i \in R : \A j \in R : i <= j

\* Mutant of waitForResourcesCondition: an error of a Get is taken as not ready yet.
waitForResourcesConditionRetrying(objs, l, nr) ==
    LET k == FirstReturn(objs, l)
        dr == deploymentsReady(FetchedOfKinds(objs, l, {"Deployment"}))
        nsr == namespacesReady(FetchedOfKinds(objs, l, {"Namespace"}))
        pr == podsReady(FetchedPods(objs, l))
        sr == servicesReady(FetchedOfKinds(objs, l, {"Service"}))
        isReady == dr.ready /\ nsr.ready /\ pr.ready /\ sr.ready
    IN  IF k # 0
        THEN [res |-> CondResult(FALSE, FALSE, k, FALSE), notReady |-> nr]
        ELSE [res |-> CondResult(isReady, FALSE, Len(objs), TRUE),
              notReady |-> joinStringSlices(nsr.notReady, dr.notReady,
                                            pr.notReady, sr.notReady)]

\* The condition function of lines 555-649, given the answers l of the cluster and the
\* value nr of notReady: what it returns and the value it leaves in notReady.
waitForResourcesCondition(objs, l, nr) ==
    LET k == FirstReturn(objs, l)
        dr == deploymentsReady(FetchedOfKinds(objs, l, {"Deployment"}))
        nsr == namespacesReady(FetchedOfKinds(objs, l, {"Namespace"}))
        pr == podsReady(FetchedPods(objs, l))
        sr == servicesReady(FetchedOfKinds(objs, l, {"Service"}))
        isReady == dr.ready /\ nsr.ready /\ pr.ready /\ sr.ready
    IN  IF k # 0
        THEN [res |-> CondResult(FALSE, FetchOutcome(objs[k], l[k]) = "err", k, FALSE),
              notReady |-> nr]
        ELSE [res |-> CondResult(isReady, FALSE, Len(objs), TRUE),
              notReady |-> joinStringSlices(nsr.notReady, dr.notReady,
                                            pr.notReady, sr.notReady)]

\* Lines 511-523: the CRD has an Established condition of status true.
Established(crd) ==
    \E i \in DOMAIN crd.Conditions :
        crd.Conditions[i].Type = "Established" /\ crd.Conditions[i].Status = "True"

\* Mutant of waitForCRDsCondition: one established CRD is enough.
waitForCRDsConditionAnyEstablished(crdNames, l) ==
    LET R == {i \in DOMAIN crdNames : l[i].err # "nil"}
        k == IF R = {} THEN 0 ELSE CHOOSE i \in R : \A j \in R : i <= j
    IN  IF k # 0 THEN CondResult(FALSE, TRUE, k, FALSE)
        ELSE CondResult(\E i \in DOMAIN crdNames : Established(l[i]), FALSE,
                        Len(crdNames), TRUE)

\* The condition function of lines 504-528, given the answers l of the cluster: it
\* returns at the first CRD whose Get fails or that is not established.
waitForCRDsCondition(crdNames, l) ==
    LET R == {i \in DOMAIN crdNames : l[i].err # "nil" \/ ~Established(l[i])}
        k == IF R = {} THEN 0 ELSE CHOOSE i \in R : \A j \in R : i <= j
    IN  IF k # 0 THEN CondResult(FALSE, l[k].err # "nil", k, FALSE)
        ELSE CondResult(TRUE, FALSE, Len(crdNames), TRUE)

\* The names waitForCRDs polls for (lines 499-502).
CrdNames(objs) ==
    LET crds == cRDKindObjects(objs) IN [i \in DOMAIN crds |-> crds[i].Name]

\* The object lists the waiters are given.
CRDWaitLists ==
    {<<>>, <<CrdObj>>, <<CrdObj, CrdObj2>>, <<DeployObj, CrdObj, CrdObj2>>,
     <<CrdObj, CrdObj2, CrdObj3>>}

ResourceWaitLists ==
    {<<>>, <<NsObj>>, <<PodObj>>, <<DaemonSetObj>>, <<DeployObj>>, <<SvcObj>>,
     <<ConfigMapObj>>, <<DeployObj, DeployObj2>>, <<NsObj, DeployObj, SvcObj>>,
     <<DeployObj, ConfigMapObj, PodObj>>, <<DaemonSetObj, DeployObj>>}

\* waitForCRDs, lines 488-502: it returns nil at once in dry-run mode, an error when
\* the client cannot be made, and starts wait.Poll otherwise.
CallWaitForCRDs(objs, dryRun, clientErr) ==
    /\ wpc = "idle"
    /\ waiter' = "crd"
    /\ wObjects' = objs
    /\ wDryRun' = dryRun
    /\ wpc' = IF dryRun \/ clientErr THEN "returned" ELSE "polling"
    /\ wErr' = IF ~dryRun /\ clientErr THEN "client" ELSE "nil"
    /\ UNCHANGED <<tick, wLive, cond, notReady, exceptWait>>

\* waitForResources, lines 543-553: the same entry, with the dry-run flag of opts.
CallWaitForResources(objs, o, clientErr) ==
    /\ wpc = "idle"
    /\ waiter' = "res"
    /\ wObjects' = objs
    /\ wDryRun' = o.DryRun
    /\ wpc' = IF o.DryRun \/ clientErr THEN "returned" ELSE "polling"
    /\ wErr' = IF ~o.DryRun /\ clientErr THEN "client" ELSE "nil"
    /\ UNCHANGED <<tick, wLive, cond, notReady, exceptWait>>

\* wait.Poll after one evaluation r of its condition: it returns the condition's
\* error, or nil when the condition is done, or ErrWaitTimeout when the timeout has
\* elapsed, and evaluates the condition again at the next tick otherwise.
PollStep(r) ==
    /\ tick' = tick + 1
    /\ cond' = r
    /\ IF r.err THEN wpc' = "returned" /\ wErr' = "api"
       ELSE IF r.done THEN wpc' = "returned" /\ wErr' = "nil"
       ELSE IF tick + 1 = MaxTicks THEN wpc' = "returned" /\ wErr' = "timeout"
       ELSE wpc' = "polling" /\ wErr' = "nil"

\* One tick of the wait.Poll of waitForCRDs (lines 504-533).
PollCRDs ==
    /\ waiter = "crd"
    /\ wpc = "polling"
    /\ \E l \in [DOMAIN CrdNames(wObjects) -> CrdLive] :
         /\ wLive' = l
         /\ PollStep(waitForCRDsCondition(CrdNames(wObjects), l))
    /\ UNCHANGED <<waiter, wObjects, wDryRun, notReady, exceptWait>>

\* One tick of the wait.Poll of waitForResources (lines 555-654).
PollResources ==
    /\ waiter = "res"
    /\ wpc = "polling"
    /\ \E l \in LiveStates(wObjects) :
         LET c == waitForResourcesCondition(wObjects, l, notReady) IN
           /\ wLive' = l
           /\ notReady' = c.notReady
           /\ PollStep(c.res)
    /\ UNCHANGED <<waiter, wObjects, wDryRun, exceptWait>>

NextWait ==
    \/ \E objs \in CRDWaitLists, d \in BOOLEAN, e \in BOOLEAN : CallWaitForCRDs(objs, d, e)
    \/ \E objs \in ResourceWaitLists, o \in InstallOptions, e \in BOOLEAN :
         CallWaitForResources(objs, o, e)
    \/ PollCRDs
    \/ PollResources

SpecWait == Init /\ [][NextWait]_vars

(* ----------------------------- RenderToDir ---------------------------- *)
\* installTree as buildInstallTree makes it (lines 730-740): the Base component at the
\* top, and under each component the children componentDependencies gives it.
TreeRoots == {IstioBaseComponentName}

TreeChildren(k) == {componentDependencies(k)[i] : i \in DOMAIN componentDependencies(k)}

\* The keys of installTree at every depth.
TreeKeys == TreeRoots \cup UNION {TreeChildren(k) : k \in TreeRoots}

\* The manifest strings RenderToDir is given: the empty one and two others.
RenderManifestStrs == {"", "a", "b"}

RenderMaps == UNION {[S -> RenderManifestStrs] : S \in SUBSET ComponentNames}

\* ym := manifests[k]: the empty string for a component the map does not have.
ManifestOf(m, k) == IF k \in DOMAIN m THEN m[k] ELSE ""

\* The directory renderRecursive makes for component k, as the list of the names
\* joined to outputDir: the outputDir of the call that visits k, then k (line 171).
\* The call that visits a child is given the directory of its parent (line 190).
RECURSIVE DirName(_)
DirName(k) == IF k \in TreeRoots THEN <<k>> ELSE Append(DirName(ParentOf(k)), k)

\* The directory of component k when every directory is made in outputDir itself.
DirNameFlat(k) == <<k>>

\* fname := filepath.Join(dirName, componentName) + ".yaml", and what is written to it.
File(dirName, k, ym) == [dir |-> dirName, name |-> k, content |-> ym]

\* RenderToDir, lines 156-159: renderRecursive starts on installTree.
CallRenderToDir(m, dryRun) ==
    /\ rpc = "idle"
    /\ rpc' = "rendering"
    /\ rManifests' = m
    /\ rDryRun' = dryRun
    /\ UNCHANGED <<visited, dirs, files, rErr, exceptRender>>

\* Mutant of RenderComponent: the file of a component goes to outputDir/<k>/<k>.yaml.
RenderComponentFlat(k, fsFail) ==
    /\ rpc = "rendering"
    /\ k \in TreeKeys \ visited
    /\ k \notin TreeRoots => (ParentOf(k) \in visited /\ ManifestOf(rManifests, ParentOf(k)) # "")
    /\ visited' = visited \cup {k}
    /\ LET ym == ManifestOf(rManifests, k)
           dirName == DirNameFlat(k)
       IN  IF ym = "" \/ rDryRun
           THEN UNCHANGED <<rpc, dirs, files, rErr>>
           ELSE IF fsFail = "MkdirAll"
           THEN rpc' = "returned" /\ rErr' = "MkdirAll" /\ UNCHANGED <<dirs, files>>
           ELSE IF fsFail = "WriteFile"
           THEN /\ rpc' = "returned" /\ rErr' = "WriteFile"
                /\ dirs' = dirs \cup {dirName}
                /\ UNCHANGED files
           ELSE /\ dirs' = dirs \cup {dirName}
                /\ files' = files \cup {File(dirName, k, ym)}
                /\ UNCHANGED <<rpc, rErr>>
    /\ UNCHANGED <<rManifests, rDryRun, exceptRender>>

\* One iteration of the loop of renderRecursive, lines 163-193, for the key k of the
\* tree the call is on: the top of installTree, or the subtree of a component that was
\* just written (the recursive call of line 190). A component with no manifest is
\* skipped, its subtree with it (line 168).
RenderComponent(k, fsFail) ==
    /\ rpc = "rendering"
    /\ k \in TreeKeys \ visited
    /\ k \notin TreeRoots => (ParentOf(k) \in visited /\ ManifestOf(rManifests, ParentOf(k)) # "")
    /\ visited' = visited \cup {k}
    /\ LET ym == ManifestOf(rManifests, k)
           dirName == DirName(k)
       IN  IF ym = "" \/ rDryRun
           THEN UNCHANGED <<rpc, dirs, files, rErr>>
           ELSE IF fsFail = "MkdirAll"
           THEN rpc' = "returned" /\ rErr' = "MkdirAll" /\ UNCHANGED <<dirs, files>>
           ELSE IF fsFail = "WriteFile"
           THEN /\ rpc' = "returned" /\ rErr' = "WriteFile"
                /\ dirs' = dirs \cup {dirName}
                /\ UNCHANGED files
           ELSE /\ dirs' = dirs \cup {dirName}
                /\ files' = files \cup {File(dirName, k, ym)}
                /\ UNCHANGED <<rpc, rErr>>
    /\ UNCHANGED <<rManifests, rDryRun, exceptRender>>

\* Line 194: the loops have visited every key they get to; RenderToDir returns nil.
RenderReturn ==
    /\ rpc = "rendering"
    /\ \A k \in TreeKeys \ visited :
         k \notin TreeRoots /\ ManifestOf(rManifests, ParentOf(k)) = ""
    /\ rpc' = "returned"
    /\ rErr' = "nil"
    /\ UNCHANGED <<rManifests, rDryRun, visited, dirs, files, exceptRender>>

NextRender ==
    \/ \E m \in RenderMaps, d \in BOOLEAN : CallRenderToDir(m, d)
    \/ \E k \in ComponentNames, fsFail \in {"none", "MkdirAll", "WriteFile"} :
         RenderComponent(k, fsFail)
    \/ RenderReturn

SpecRender == Init /\ [][NextRender]_vars

(* ------------------------------ helpers ------------------------------- *)
\* applyManifest of c has been called in the current call.
Started(c) == pc[c] \in {"apply", "signal", "done"}

\* applyManifest of c has returned in the current call.
Returned(c) == pc[c] \in {"signal", "done"}

\* The goroutines of the current call have all finished.
AllDone == phase = "running" /\ \A c \in DOMAIN manifests : pc[c] = "done"

\* ApplyAll has returned from applyRecursive (not from the connection failure).
RanToReturn == phase = "returned" /\ retErr # "connection"

Gates == DOMAIN dependencyWaitCh

Range(seq) == {seq[i] : i \in DOMAIN seq}

\* The total length of the object lists recorded in o for the components of S.
RECURSIVE SumLen(_, _)
SumLen(o, S) ==
    IF S = {} THEN 0
    ELSE LET c == CHOOSE x \in S : TRUE IN Len(o[c].Manifest) + SumLen(o, S \ {c})

\* The indices of the invocations of operation op for step st in the call list cs.
CallsOf(cs, op, st) == {i \in DOMAIN cs : cs[i].op = op /\ cs[i].step = st}

\* Before index i, cs holds a successful invocation of op for step st on objs.
OkBefore(cs, op, st, objs, i) ==
    \E j \in 1..(i - 1) :
        cs[j].op = op /\ cs[j].step = st /\ cs[j].ok /\ Range(cs[j].objs) = objs

\* The objects of kind k in the manifest of component c, labelled as applyManifest does.
KindObjects(c, k) ==
    {AddLabels(o, c) : o \in {x \in Range(manifests[c].objs) : x.Kind = k}}

\* The error an unsuccessful invocation of an enabled component's step stands for.
StepErr(call) ==
    CASE call.op = "Apply" /\ call.step = "ns" -> "NsApply"
      [] call.op = "waitForResources" /\ call.step = "ns" -> "NsWait"
      [] call.op = "Apply" /\ call.step = "crd" -> "CrdApply"
      [] call.op = "waitForCRDs" /\ call.step = "crd" -> "CrdWait"
      [] call.op = "Apply" /\ call.step = "rest" -> "RestApply"
      [] OTHER -> "other"

(* ------------------------------- claims ------------------------------- *)

\* C1: in every call of ApplyAll, a component with a declared parent starts its
\* applyManifest only after the parent's applyManifest of that same call has returned.
C1_ChildStartsAfterParentReturned ==
    \A c \in Gates : Started(c) => Returned(ParentOf(c))

\* C2: whatever the manifest map and whatever fails, every goroutine finishes and
\* ApplyAll returns. Each goroutine takes finitely many steps, so the call fails to
\* return exactly when it reaches a state in which the goroutines are launched and
\* neither a goroutine nor wg.Wait() can take a step.
C2_ApplyAllReturns ==
    phase = "running" => ENABLED (TaskStep(RunFailPoints) \/ WaitAndReturn)

\* C3: once a parent's applyManifest has returned an outcome with an error, the parent
\* signals the gate of every declared child and every child present in the manifests
\* gets to call applyManifest: there is no state in which that has not happened and no
\* goroutine can take a step any more.
C3_FailedParentUnblocksChildren ==
    \A p \in DOMAIN out :
        (phase = "running" /\ Returned(p) /\ out[p].Err # "nil")
            => \/ \A i \in DOMAIN componentDependencies(p) :
                    LET ch == componentDependencies(p)[i] IN
                      /\ sent[ch] >= 1
                      /\ ch \in DOMAIN manifests => Started(ch)
               \/ ENABLED TaskStep(RunFailPoints)

\* C4: when a call of ApplyAll has returned, every gate has been signaled exactly once
\* and its signal consumed exactly once during the call; and a component that has no
\* gate never waits before it calls applyManifest.
C4_EachGateSignaledAndConsumedOnce ==
    /\ RanToReturn => \A g \in Gates : sent[g] = 1 /\ received[g] = 1
    /\ \A c \in ComponentNames \ Gates :
         (phase = "running" /\ pc[c] = "wait") => ENABLED PassGate(c)

\* C5: once every goroutine has finished, the outcome map has exactly the components
\* of the manifests as its keys and the aggregated list holds every object of every
\* component's returned list, none lost and none twice.
C5_AggregationLosesNothing ==
    (AllDone \/ RanToReturn) =>
        /\ DOMAIN out = DOMAIN manifests
        /\ \A c \in DOMAIN out : Range(out[c].Manifest) \subseteq Range(allAppliedObjects)
        /\ Len(allAppliedObjects) = SumLen(out, DOMAIN out)

C5_Witness ==
    /\ RanToReturn
    /\ Cardinality(DOMAIN out) >= 3
    /\ Len(allAppliedObjects) >= 2
    /\ \E c \in DOMAIN out : out[c].Manifest = <<>>

\* C6: the error ApplyAll returns is non-nil only for a connection failure or, with
\* opts.Wait set, a failed final wait; a component's own error stays in its outcome, and
\* with opts.Wait unset applyRecursive returns a nil error.
C6_TopLevelErrorOnlyFromConnectionOrFinalWait ==
    phase = "returned" =>
        /\ retErr # "nil" =>
             \/ retErr = "connection"
             \/ opts.Wait /\ finalWait.called /\ retErr = "notReady"
        /\ (retErr # "connection" /\ ~opts.Wait) => retErr = "nil"

C6_Witness ==
    /\ phase = "returned"
    /\ retErr = "nil"
    /\ opts.Wait
    /\ \E c \in DOMAIN out : out[c].Err = "CrdWait"
    /\ \E c \in DOMAIN out : out[c].Err \in {"Parse", "RestApply"}

\* C7: the final waitForResources is called if and only if opts.Wait is set, only once
\* every goroutine has stored its outcome and finished, and on the aggregated list that
\* holds the objects every component returned.
C7_FinalWaitAfterAllTasks ==
    /\ phase = "running" => ~finalWait.called
    /\ RanToReturn =>
         /\ finalWait.called <=> opts.Wait
         /\ finalWait.called =>
              /\ \A c \in DOMAIN manifests : pc[c] = "done" /\ c \in DOMAIN out
              /\ finalWait.objects = allAppliedObjects
              /\ \A c \in DOMAIN out :
                   Range(out[c].Manifest) \subseteq Range(finalWait.objects)

C7_Witness ==
    /\ RanToReturn
    /\ finalWait.called
    /\ Cardinality(DOMAIN manifests) >= 3
    /\ Len(finalWait.objects) >= 2

\* C8: with DryRun unset, an enabled component's CRD objects are applied only after its
\* namespace objects were applied and then reported ready, and its remaining objects
\* only after that and after its CRD objects were applied and then reported established.
C8_NamespacesThenCRDsThenRemainder ==
    \A c \in DOMAIN out :
        LET cs == calls[c]
            ns == KindObjects(c, "Namespace")
            crd == KindObjects(c, "CustomResourceDefinition")
            NsReadyBefore(i) ==
                ns # {} =>
                    \E k \in 1..(i - 1) :
                        /\ cs[k].op = "waitForResources" /\ cs[k].ok
                        /\ Range(cs[k].objs) = ns
                        /\ OkBefore(cs, "Apply", "ns", ns, k)
            CrdEstablishedBefore(i) ==
                crd # {} =>
                    \E k \in 1..(i - 1) :
                        /\ cs[k].op = "waitForCRDs" /\ cs[k].ok
                        /\ Range(cs[k].objs) = crd
                        /\ OkBefore(cs, "Apply", "crd", crd, k)
        IN  ~opts.DryRun =>
              /\ \A i \in CallsOf(cs, "Apply", "crd") : NsReadyBefore(i)
              /\ \A i \in CallsOf(cs, "Apply", "rest") :
                   NsReadyBefore(i) /\ CrdEstablishedBefore(i)

C8_Witness ==
    \E c \in DOMAIN out :
        /\ ~opts.DryRun
        /\ KindObjects(c, "Namespace") # {}
        /\ KindObjects(c, "CustomResourceDefinition") # {}
        /\ CallsOf(calls[c], "Apply", "rest") # {}

\* C9: when the Apply of a step of a component, or the wait after it, fails, that is the
\* last invocation the component makes, its error is the component's outcome Err, and
\* when ApplyAll returns every other component has its own outcome all the same.
C9_StepFailureEndsComponentOnly ==
    /\ \A c \in DOMAIN out :
         \A i \in DOMAIN calls[c] :
             (calls[c][i].step \in {"ns", "crd", "rest"} /\ ~calls[c][i].ok) =>
                 /\ i = Len(calls[c])
                 /\ out[c].Err = StepErr(calls[c][i])
    /\ RanToReturn => \A c \in DOMAIN manifests : c \in DOMAIN out

C9_Witness ==
    /\ RanToReturn
    /\ \E c \in DOMAIN out :
         /\ out[c].Err = "NsWait"
         /\ CallsOf(calls[c], "Apply", "crd") = {}
         /\ \E d \in DOMAIN out \ {c} : out[d].Err = "nil" /\ CallsOf(calls[d], "Apply", "rest") # {}

\* C10: the object list applyManifest returns for an enabled component holds exactly the
\* objects of the steps whose Apply returned without error.
C10_ReturnedObjectsAreTheAppliedOnes ==
    \A c \in DOMAIN out :
        Len(manifests[c].objs) > 0 =>
            Range(out[c].Manifest) =
                UNION {Range(calls[c][i].objs) :
                         i \in {j \in DOMAIN calls[c] : calls[c][j].op = "Apply" /\ calls[c][j].ok}}

\* The priority the specification's table gives an object, by its kind.
TablePriority(o) ==
    CASE o.Kind = "CustomResourceDefinition" -> 0 - 1000
      [] o.Kind \in {"ServiceAccount", "ClusterRole"} -> 1
      [] o.Kind = "ClusterRoleBinding" -> 2
      [] o.Kind \in {"ConfigMap", "Secret"} -> 100
      [] o.Kind = "Deployment" -> 1000
      [] o.Kind = "HorizontalPodAutoscaler" -> 1001
      [] o.Kind = "Service" -> 10000
      [] OTHER -> 1000

\* C11: defaultObjectOrder gives every object the priority of the table (CRD -1000,
\* ServiceAccount and ClusterRole 1, ClusterRoleBinding 2, ConfigMap and Secret 100,
\* Deployment 1000, HorizontalPodAutoscaler 1001, Service 10000, any other kind 1000), so
\* a sorted list has its objects in the order of the table's priorities.
C11_PriorityIsTheTable ==
    sorted =>
        /\ \A i \in DOMAIN objects : defaultObjectOrder(objects[i]) = TablePriority(objects[i])
        /\ \A i, j \in DOMAIN objects :
             i < j => TablePriority(objects[i]) <= TablePriority(objects[j])

\* The place of object o in the list objects.
PlaceOf(o) == CHOOSE i \in DOMAIN objects : objects[i] = o

\* C12: nsKindObjects, cRDKindObjects and objectsNotInLists put every object of the list
\* in exactly one of the three lists (the Namespace kind, the CustomResourceDefinition
\* kind, and neither), and each list keeps the order the objects have in the list.
C12_PartitionKeepsEveryObjectInOrder ==
    parts.set =>
        LET lists == <<parts.ns, parts.crd, parts.rest>>
            ListOf(o) == CASE o.Kind = "Namespace" -> 1
                           [] o.Kind = "CustomResourceDefinition" -> 2
                           [] OTHER -> 3
        IN  /\ \A i \in DOMAIN objects :
                 \A k \in 1..3 : objects[i] \in Range(lists[k]) <=> k = ListOf(objects[i])
            /\ Len(parts.ns) + Len(parts.crd) + Len(parts.rest) = Len(objects)
            /\ \A k \in 1..3 :
                 /\ Range(lists[k]) \subseteq Range(objects)
                 /\ \A a, b \in DOMAIN lists[k] :
                      a < b => PlaceOf(lists[k][a]) < PlaceOf(lists[k][b])

C12_Witness ==
    /\ parts.set
    /\ ~sorted
    /\ Len(parts.ns) >= 1
    /\ Len(parts.crd) >= 1
    /\ Len(parts.rest) >= 2
    /\ \E i, j \in DOMAIN objects :
         i < j /\ objects[i].Kind = "Service" /\ objects[j].Kind = "Deployment"

\* C13: every Apply invocation of applyManifest carries the forced-apply flag, and it
\* carries the prune flag, with the selector of the component's own label, if and only
\* if the component is not the Base component.
C13_ForceAlwaysPruneExceptBase ==
    \A c \in DOMAIN out :
        \A i \in DOMAIN calls[c] :
            calls[c][i].op = "Apply" =>
                LET a == calls[c][i].extraArgs IN
                  /\ a.force
                  /\ a.prune <=> c # IstioBaseComponentName
                  /\ a.selector = IF c # IstioBaseComponentName THEN c ELSE NoComponent

C13_Witness ==
    /\ RanToReturn
    /\ IstioBaseComponentName \in DOMAIN out
    /\ Len(calls[IstioBaseComponentName]) >= 5
    /\ \E c \in DOMAIN out \ {IstioBaseComponentName} :
         \E i \in DOMAIN calls[c] : calls[c][i].op = "Apply" /\ calls[c][i].extraArgs.prune

\* The lookup of a disabled component's live objects returned without error.
LookupDone(c) ==
    /\ ~manifests[c].bad
    /\ manifests[c].objs = <<>>
    /\ out[c].Err \notin {"GetAll", "GetItems", "ParseDel"}

\* The live objects the lookup of component c found.
Found(c) == calls[c][1].objs

\* C14: for a component whose manifest has no object, when the lookup by the component's
\* label finds no live object applyManifest makes no Delete and no Apply invocation and
\* returns a nil error and empty stdout and stderr; when it finds some, applyManifest
\* makes exactly one Delete invocation, with that component's label as its selector
\* and nothing else, and no Apply invocation.
C14_DisabledComponentIsPrunedOnce ==
    \A c \in DOMAIN out :
        LookupDone(c) =>
            LET cs == calls[c]
                dels == {i \in DOMAIN cs : cs[i].op = "Delete"}
                applies == {i \in DOMAIN cs : cs[i].op = "Apply"}
            IN  /\ applies = {}
                /\ Len(Found(c)) = 0 =>
                     /\ dels = {}
                     /\ out[c].Err = "nil"
                     /\ out[c].Stdout = <<>>
                     /\ out[c].Stderr = <<>>
                /\ Len(Found(c)) > 0 =>
                     /\ Cardinality(dels) = 1
                     /\ \A i \in dels :
                          cs[i].extraArgs = ExtraArgs(FALSE, FALSE, FALSE, c)

C14_Witness ==
    /\ RanToReturn
    /\ \E c, d \in DOMAIN out :
         /\ LookupDone(c) /\ Len(Found(c)) = 0
         /\ LookupDone(d) /\ Len(Found(d)) > 0 /\ out[d].Err = "nil"

\* An API error was returned for one of the objects the condition looked at during
\* the last tick.
ApiErrorAtLastTick == \E i \in 1..cond.fetched : wLive[i].err # "nil"

\* C15: waitForCRDs with dryRun unset returns nil only when one evaluation of the
\* condition found every named CRD with an Established condition of status true; while
\* some CRD is not established and no error occurs it keeps polling, and it returns the
\* timeout error only once the timeout has elapsed; a NamesAccepted condition of status
\* false makes it return no error.
C15_CRDWaitSucceedsOnlyWhenAllEstablished ==
    (waiter = "crd" /\ ~wDryRun) =>
        LET names == CrdNames(wObjects)
            allEstablished ==
                \A i \in DOMAIN names : wLive[i].err = "nil" /\ Established(wLive[i])
        IN  /\ (wpc = "returned" /\ wErr = "nil") => (tick >= 1 /\ allEstablished)
            /\ (tick >= 1 /\ ~allEstablished /\ ~ApiErrorAtLastTick) =>
                 IF tick < MaxTicks THEN wpc = "polling"
                 ELSE wpc = "returned" /\ wErr = "timeout"
            /\ wErr = "timeout" => tick = MaxTicks
            /\ wErr = "api" => ApiErrorAtLastTick
            /\ wErr = "client" => tick = 0

C15_Witness ==
    /\ waiter = "crd"
    /\ Len(CrdNames(wObjects)) = 3
    /\ wpc = "returned"
    /\ wErr = "timeout"
    /\ wLive[1].Conditions = <<Condition("NamesAccepted", "False"), Condition("Established", "True")>>
    /\ wLive[2].err = "nil" /\ Established(wLive[2])
    /\ wLive[3].err = "nil" /\ ~Established(wLive[3])

\* C16: in the loop of waitForCRDs and in the loop of waitForResources, a tick at which
\* the fetch of an object returns an API error is the last one: the waiter returns an
\* error then and evaluates its condition no more.
C16_ApiErrorEndsTheLoop ==
    (waiter \in {"crd", "res"} /\ tick >= 1 /\ ApiErrorAtLastTick) =>
        /\ wpc = "returned"
        /\ wErr = "api"
        /\ ~ENABLED (PollCRDs \/ PollResources)

C16_Witness ==
    /\ waiter = "res"
    /\ wObjects = <<NsObj, DeployObj, SvcObj>>
    /\ tick = MaxTicks
    /\ wLive[1].Phase = "Active"
    /\ wLive[2].err = "rs"
    /\ wErr = "api"

\* The names of the resources of objs that are not ready in the cluster state l.
NotReadyNames(objs, l) ==
    LET ok(i) == l[i].err = "nil"
        pods == FetchedPods(objs, [i \in DOMAIN l |->
                                      IF ok(i) THEN l[i]
                                      ELSE [err |-> "get", Conditions |-> <<Condition("Ready", "True")>>,
                                            Pods |-> <<>>]])
    IN  {ResourceName("Namespace", objs[i].Name) :
            i \in {j \in DOMAIN objs : objs[j].Kind = "Namespace" /\ ok(j)
                                        /\ l[j].Phase # "Active"}}
        \cup {ResourceName("Deployment", objs[i].Name) :
                i \in {j \in DOMAIN objs : objs[j].Kind = "Deployment" /\ ok(j)
                          /\ (~l[j].hasRS \/ l[j].ReadyReplicas < l[j].Replicas)}}
        \cup {ResourceName("Pod", pods[i].Name) :
                i \in {j \in DOMAIN pods : ~isPodReady(pods[j])}}
        \cup {ResourceName("Service", objs[i].Name) :
                i \in {j \in DOMAIN objs : objs[j].Kind = "Service" /\ ok(j)
                          /\ l[j].Type # "ExternalName"
                          /\ (l[j].ClusterIP = "" \/ (l[j].Type = "LoadBalancer" /\ ~l[j].Ingress))}}

\* C17: waitForResources returns nil exactly when a tick finds no resource of the given
\* objects not ready, and the error it returns at the timeout lists every resource that
\* was not ready at the last tick, a Deployment without a current replica set included.
C17_TimeoutListsEveryNotReadyResource ==
    (waiter = "res" /\ ~wDryRun /\ tick >= 1) =>
        /\ (wpc = "returned" /\ wErr = "nil") => NotReadyNames(wObjects, wLive) = {}
        /\ (~ApiErrorAtLastTick /\ NotReadyNames(wObjects, wLive) = {}) =>
             (wpc = "returned" /\ wErr = "nil")
        /\ wErr = "timeout" => Range(notReady) = NotReadyNames(wObjects, wLive)

\* The Service objects among the objects given to waitForResources.
ServicesGiven == {i \in DOMAIN wObjects : wObjects[i].Kind = "Service"}

\* The last tick got to evaluate the readiness of the objects it fetched.
ReadinessEvaluated == waiter = "res" /\ tick >= 1 /\ cond.evaluated

Listed(kind, i) == ResourceName(kind, wObjects[i].Name) \in Range(notReady)

\* C18, as stated: a Service is reported not ready if and only if it is of type
\* ClusterIP with no cluster IP or of type LoadBalancer with no ingress; every other
\* service, a NodePort service whatever its cluster IP for one, is reported ready.
C18_ServiceNotReadyByItsType ==
    ReadinessEvaluated =>
        \A i \in ServicesGiven :
            Listed("Service", i) <=>
                \/ wLive[i].Type = "ClusterIP" /\ wLive[i].ClusterIP = ""
                \/ wLive[i].Type = "LoadBalancer" /\ ~wLive[i].Ingress

\* C18, amended: a Service is reported not ready if and only if it is not of type
\* ExternalName and either has no cluster IP assigned (the empty string; "None" counts as
\* assigned), whatever its type, or is of type LoadBalancer with no ingress.
C18_ServiceNotReadyWithoutClusterIP ==
    ReadinessEvaluated =>
        \A i \in ServicesGiven :
            Listed("Service", i) <=>
                /\ wLive[i].Type # "ExternalName"
                /\ \/ wLive[i].ClusterIP = ""
                   \/ wLive[i].Type = "LoadBalancer" /\ ~wLive[i].Ingress

C18_Witness ==
    /\ ReadinessEvaluated
    /\ \E i \in ServicesGiven :
         /\ wLive[i].Type = "NodePort"
         /\ wLive[i].ClusterIP = ""
         /\ Listed("Service", i)
    /\ Len(wObjects) = 3

\* The Deployment objects among the objects given to waitForResources.
DeploymentsGiven == {i \in DOMAIN wObjects : wObjects[i].Kind = "Deployment"}

\* C19: at each tick that evaluates readiness, a Deployment is reported not ready
\* exactly when the ready replicas of its current replica set are fewer than the
\* replicas it asks for, and waitForResources returns nil at that very tick when every
\* Deployment has reached its count and nothing else is reported not ready.
C19_DeploymentReadyWhenReplicasReached ==
    /\ ReadinessEvaluated =>
         /\ \A i \in DeploymentsGiven :
              Listed("Deployment", i) <=> wLive[i].ReadyReplicas < wLive[i].Replicas
         /\ (/\ \A i \in DeploymentsGiven : wLive[i].ReadyReplicas >= wLive[i].Replicas
             /\ \A n \in Range(notReady) : n[1] = "Deployment")
              => (wpc = "returned" /\ wErr = "nil")
    /\ (waiter = "res" /\ ~wDryRun /\ wpc = "returned" /\ wErr = "nil") =>
         /\ cond.evaluated
         /\ \A i \in DeploymentsGiven : wLive[i].ReadyReplicas >= wLive[i].Replicas

C19_Witness ==
    /\ waiter = "res"
    /\ wObjects = <<DeployObj, DeployObj2>>
    /\ tick = MaxTicks
    /\ wpc = "returned"
    /\ wErr = "nil"
    /\ wLive[1].ReadyReplicas = MaxReplicas /\ wLive[1].Replicas = MaxReplicas
    /\ wLive[2].ReadyReplicas = 1 /\ wLive[2].Replicas = 1

\* RenderToDir has returned nil.
Rendered == rpc = "returned" /\ rErr = "nil"

\* The components whose manifest is not empty.
WithManifest == {c \in DOMAIN rManifests : rManifests[c] # ""}

\* C20, as stated: with dryRun unset RenderToDir writes the manifest of every component
\* that has a non-empty manifest to outputDir/<componentName>/<componentName>.yaml, the
\* root component and its children alike; with dryRun set it makes no directory or file.
C20_EveryManifestInItsOwnDirectory ==
    /\ (Rendered /\ ~rDryRun) =>
         \A c \in WithManifest : File(<<c>>, c, rManifests[c]) \in files
    /\ rDryRun => (dirs = {} /\ files = {})

\* The components renderRecursive gets to write: the root when it has a manifest, and
\* the declared children that have one when the root has one.
Written ==
    {c \in WithManifest \cap TreeKeys :
        c \in TreeRoots \/ ParentOf(c) \in WithManifest}

\* C20, amended: with dryRun unset, a RenderToDir that returns nil has written the
\* root's manifest, if not empty, to outputDir/<root>/<root>.yaml and, only when the
\* root's manifest is not empty, the manifest of each declared child that has one to
\* outputDir/<root>/<child>/<child>.yaml, and nothing else; with dryRun set it makes
\* no directory and no file.
C20_ChildrenInTheDirectoryOfTheRoot ==
    /\ (Rendered /\ ~rDryRun) =>
         /\ files = {File(IF c \in TreeRoots THEN <<c>> ELSE <<ParentOf(c), c>>,
                          c, rManifests[c]) : c \in Written}
         /\ dirs = {f.dir : f \in files}
    /\ rDryRun => (dirs = {} /\ files = {})

C20_Witness ==
    /\ Rendered
    /\ ~rDryRun
    /\ UnlistedComponentName \in WithManifest
    /\ Cardinality(files) = 3
    /\ \E f \in files : f.name # IstioBaseComponentName /\ Len(f.dir) = 2

\* C21: when ApplyAll returns, every gate is empty, whatever components the manifests
\* held, so the next ApplyAll of the process finds the gates as the first one did.
C21_GatesEmptyAtReturn ==
    phase = "returned" => \A g \in Gates : dependencyWaitCh[g] = 0

\* C22: a parent has stored its outcome and its applied objects in the aggregate before
\* it signals a child, and when a child with a declared parent starts applyManifest the
\* outcome map of the call holds the parent's entry already.
C22_ParentRecordedBeforeChildStarts ==
    /\ \A g \in Gates :
         sent[g] >= 1 =>
             /\ ParentOf(g) \in DOMAIN out
             /\ Range(out[ParentOf(g)].Manifest) \subseteq Range(allAppliedObjects)
    /\ \A g \in Gates :
         (phase = "running" /\ Started(g)) => ParentOf(g) \in DOMAIN out

\* The objects the Delete invocations of the current call removed from the cluster.
Pruned ==
    UNION {UNION {Range(calls[c][i].objs) :
                    i \in {j \in DOMAIN calls[c] :
                              calls[c][j].op = "Delete" /\ calls[c][j].ok}} :
             c \in DOMAIN out}

\* C23: the objects the disabled-component path deleted are not in the list the final
\* readiness pass is given: with Wait set (and DryRun unset, so that they are deleted),
\* ApplyAll does not wait for an object it has just pruned.
C23_PrunedObjectsAreNotWaitedFor ==
    (RanToReturn /\ finalWait.called /\ ~opts.DryRun) =>
        Pruned \cap Range(finalWait.objects) = {}

\* C24: for a component that is not the Base component, only the Apply of the remainder
\* objects asks for pruning by the component's label; the Apply of the namespace
\* objects and the Apply of the CRD objects do not.
C24_PruneOnlyOnRemainderApply ==
    \A c \in DOMAIN out \ {IstioBaseComponentName} :
        \A i \in DOMAIN calls[c] :
            calls[c][i].op = "Apply" =>
                (calls[c][i].extraArgs.prune <=> calls[c][i].step = "rest")

====
